---------------------------- MODULE Spec2Model ----------------------------
(***************************************************************************)
(* partial-io: fault injection for I/O wrappers.                           *)
(*                                                                         *)
(* The directive queue (make_ops: a fused iterator of PartialOp) and the   *)
(* asynchronous poll helpers FuturesOps::poll_impl and                     *)
(* FuturesOps::poll_impl_no_limit are modelled from src/src/lib.rs and     *)
(* src/src/futures_util.rs.  Each iteration of the `loop { match           *)
(* self.ops.next() ... }` body is one step, so that a poll call is the     *)
(* sequence of steps from its call to its `break`.                         *)
(***************************************************************************)
EXTENDS Naturals, Sequences, FiniteSets

\* ------------------------------------------------------------- bounds
\* Longest producer (items the caller-supplied iterator holds).
MaxLen == 3
\* Largest n of a Limited(n) directive given to the asynchronous wrapper.
MaxN == 2
\* Largest `remaining` argument of poll_impl.
MaxRemaining == 1

\* Longest producer given to FuturesOps::new or replace() where replace() is
\* called, and most replace() calls.
MaxReplLen == 2
MaxReplaces == 1

\* Longest producer given to a synchronous wrapper.
MaxSyncLen == 2
\* Most calls made on a synchronous wrapper.
MaxCalls == 3

\* ------------------------------------------------------- PartialOp
Limited(n) == [t |-> "Limited", n |-> n]
Unlimited == [t |-> "Unlimited"]
Err(kind) == [t |-> "Err", kind |-> kind]
\* Option::None returned by the producer's next().
NoneItem == [t |-> "None"]

\* io::ErrorKind: the two kinds the code tests for and two others.
Kinds == {"Interrupted", "WouldBlock", "BrokenPipe", "InvalidData"}

PartialOp == {Limited(n) : n \in 0..MaxN} \cup {Unlimited} \cup {Err(k) : k \in Kinds}

\* Sequences over S of length at most n.
SeqsUpTo(S, n) == UNION {[1..k -> S] : k \in 0..n}

\* What a caller-supplied iterator may return call after call.  An iterator
\* need not be fused: it may return None and items again afterwards.
Producers == SeqsUpTo(PartialOp \cup {NoneItem}, MaxLen)

\* ------------------------------------------- synchronous wrappers: data
\* b"Hello, world!", the data of the inner Cursor.
HelloWorld == <<"H", "e", "l", "l", "o", ",", " ", "w", "o", "r", "l", "d", "!">>

\* The n of the Limited(n) directives given to a synchronous wrapper: zero,
\* below, equal to and above the lengths callers ask for.
SyncLimits == {0, 5, 7, 300}

SyncPartialOp ==
    {Limited(n) : n \in SyncLimits} \cup {Unlimited}
        \cup {Err(k) : k \in {"Interrupted", "WouldBlock", "BrokenPipe"}}

SyncProducers == SeqsUpTo(SyncPartialOp \cup {NoneItem}, MaxSyncLen)

\* Lengths of the buffers read() is called with: vec![0; 256], out[7..] and
\* a short one.
ReadLens == {5, 249, 256}

\* The buffers write() is called with.
WriteBufs == {SubSeq(HelloWorld, 1, 5), HelloWorld}

\* io::Result<usize> and io::Result<()>.
SOk(n) == [ok |-> TRUE, v |-> n]
SErr(kind, msg) == [ok |-> FALSE, kind |-> kind, msg |-> msg]
FlushOk == [ok |-> TRUE]
\* The inner resource was not called.
NoInner == [ok |-> FALSE, kind |-> "NotCalled"]

\* --------------------------------------------------- Poll<io::Result<T>>
Pending == [p |-> "Pending"]
ReadyOk(v) == [p |-> "Ready", ok |-> TRUE, v |-> v]
ReadyErr(kind, msg) == [p |-> "Ready", ok |-> FALSE, kind |-> kind, msg |-> msg]
\* No poll has returned yet / the poll is inside its loop.
NoResult == [p |-> "NoResult"]

\* Option<usize> handed to the callback of poll_impl; poll_impl_no_limit's
\* callback takes no bound at all.
SomeLen(n) == [o |-> "Some", len |-> n]
NoBound == [o |-> "None"]
NoArg == [o |-> "NoArg"]
NotCalled == [o |-> "NotCalled"]

\* The outcomes the inner callback may return: the wrapper cannot tell.
CbOutcomes ==
    {Pending, ReadyOk(0), ReadyOk(1)}
        \cup {ReadyErr(k, "inner") : k \in {"Interrupted", "BrokenPipe"}}

\* The `err_str` arguments callers pass.
ErrStrs == {"error during poll_read", "error during poll_flush"}

VARIABLES
    prod,       \* the caller-supplied iterator: what it returns, call after call
    cursor,     \* number of next() calls made on the caller-supplied iterator
    fused,      \* Fuse's flag: the iterator has returned None once
    pc,         \* "idle", or "loop" inside the loop of a poll call
    fn,         \* the poll helper called last: "poll_impl" or "poll_impl_no_limit"
    remaining,  \* poll_impl's `remaining` argument
    errStr,     \* the `err_str` argument
    startCursor,\* cursor when the current/last poll was called
    lastOp,     \* the item self.ops.next() returned last in this poll
    pollPulls,  \* self.ops.next() calls made by the current/last poll
    pollWakes,  \* cx.waker().wake_by_ref() calls made by the current/last poll
    pollCbs,    \* calls of the callback made by the current/last poll
    cbArg,      \* the bound the callback got in this poll, or NotCalled
    cbRet,      \* what the callback returned in this poll
    res,        \* what the last poll returned
    wakes,      \* wake_by_ref() calls since construction
    wrapper,    \* "async", "PartialRead" or "PartialWrite"
    flaky,      \* the inner resource fails on its own on every call
    srcPos,     \* position of the inner Cursor a PartialRead wraps
    sink,       \* contents of the inner Vec a PartialWrite wraps
    log,        \* the calls made on the synchronous wrapper, in order
    repl,       \* the replace() calls: how many, and what the last one found
    cyclic,     \* the producer never ends: after its last item it starts over
    twin,       \* a second FuturesOps, polled side by side with the first
    gen,        \* a run of PartialWithErrors::arbitrary
    shr,        \* a Vec<PartialOp> being shrunk, and the one it started from
    bw,         \* the BuggyWrite of examples/buggy_write.rs and its test run
    task        \* the task that polls the wrapper, as its executor sees it

pollVars == <<pc, fn, remaining, errStr, startCursor, lastOp, pollPulls,
              pollWakes, pollCbs, cbArg, cbRet, res, wakes>>
syncVars == <<srcPos, sink, log>>
\* What the polls and the synchronous calls on one wrapper leave alone.
otherVars == <<repl, cyclic, gen, shr, bw>>
vars == <<prod, cursor, fused, pc, fn, remaining, errStr, startCursor, lastOp,
          pollPulls, pollWakes, pollCbs, cbArg, cbRet, res, wakes, wrapper,
          flaky, srcPos, sink, log, repl, cyclic, twin, gen, shr, bw,
          task>>

\* ------------------------------------------------------ directive queue
\* The c+1-th call of next() on the caller-supplied iterator.
ProducerNext(p, c) == IF c < Len(p) THEN p[c + 1] ELSE NoneItem

\* Mutant of OpsNext: make_ops without .fuse(), the producer is asked again
\* after it returned None.
OpsNext_NotFused(p, c, f) ==
    [item |-> ProducerNext(p, c), cursor |-> c + 1,
     fused |-> (f \/ ProducerNext(p, c) = NoneItem)]

\* Mutant of OpsNext: after an Err(Interrupted) the directive that follows it
\* is dropped.
OpsNext_SkipsOne(p, c, f) ==
    IF f
    THEN [item |-> NoneItem, cursor |-> c, fused |-> TRUE]
    ELSE [item |-> ProducerNext(p, c),
          cursor |-> IF ProducerNext(p, c) = Err("Interrupted") THEN c + 2
                     ELSE c + 1,
          fused |-> (ProducerNext(p, c) = NoneItem)]

\* self.ops.next() on the iterator make_ops builds (iter.into_iter().fuse()):
\* after the first None the inner iterator is not called any more.
OpsNext(p, c, f) ==
    IF f
    THEN [item |-> NoneItem, cursor |-> c, fused |-> TRUE]
    ELSE [item |-> ProducerNext(p, c), cursor |-> c + 1,
          fused |-> (ProducerNext(p, c) = NoneItem)]

\* ------------------------------------------------- FuturesOps::poll_impl
\* Mutant of PollImplMatch: Err(Interrupted) is not special-cased and takes
\* the final else branch.
PollImplMatch_PropagatesInterrupted(item, rem, estr, out) ==
    CASE item.t = "Limited" ->
            [cont |-> FALSE, wake |-> 0,
             cb |-> SomeLen(IF item.n < rem THEN item.n ELSE rem), ret |-> out]
      [] item.t = "Err" /\ item.kind = "WouldBlock" ->
            [cont |-> FALSE, wake |-> 1, cb |-> NotCalled, ret |-> Pending]
      [] item.t = "Err" /\ item.kind # "WouldBlock" ->
            [cont |-> FALSE, wake |-> 0, cb |-> NotCalled,
             ret |-> ReadyErr(item.kind, estr)]
      [] item.t \in {"Unlimited", "None"} ->
            [cont |-> FALSE, wake |-> 0, cb |-> NoBound, ret |-> out]

\* Mutant of PollImplMatch: Limited(n) hands Some(n) to the callback without
\* taking the minimum with `remaining`.
PollImplMatch_NoMin(item, rem, estr, out) ==
    CASE item.t = "Limited" ->
            [cont |-> FALSE, wake |-> 0, cb |-> SomeLen(item.n), ret |-> out]
      [] item.t = "Err" /\ item.kind = "WouldBlock" ->
            [cont |-> FALSE, wake |-> 1, cb |-> NotCalled, ret |-> Pending]
      [] item.t = "Err" /\ item.kind = "Interrupted" ->
            [cont |-> TRUE, wake |-> 0, cb |-> NotCalled, ret |-> NoResult]
      [] item.t = "Err" /\ item.kind \notin {"WouldBlock", "Interrupted"} ->
            [cont |-> FALSE, wake |-> 0, cb |-> NotCalled,
             ret |-> ReadyErr(item.kind, estr)]
      [] item.t \in {"Unlimited", "None"} ->
            [cont |-> FALSE, wake |-> 0, cb |-> NoBound, ret |-> out]

\* Mutant of PollImplMatch: Err(WouldBlock) returns Pending without a call of
\* wake_by_ref().
PollImplMatch_PendingNoWake(item, rem, estr, out) ==
    CASE item.t = "Limited" ->
            [cont |-> FALSE, wake |-> 0,
             cb |-> SomeLen(IF item.n < rem THEN item.n ELSE rem), ret |-> out]
      [] item.t = "Err" /\ item.kind = "WouldBlock" ->
            [cont |-> FALSE, wake |-> 0, cb |-> NotCalled, ret |-> Pending]
      [] item.t = "Err" /\ item.kind = "Interrupted" ->
            [cont |-> TRUE, wake |-> 0, cb |-> NotCalled, ret |-> NoResult]
      [] item.t = "Err" /\ item.kind \notin {"WouldBlock", "Interrupted"} ->
            [cont |-> FALSE, wake |-> 0, cb |-> NotCalled,
             ret |-> ReadyErr(item.kind, estr)]
      [] item.t \in {"Unlimited", "None"} ->
            [cont |-> FALSE, wake |-> 0, cb |-> NoBound, ret |-> out]

\* One iteration of poll_impl's loop on the item pulled: whether the loop
\* continues, the wake_by_ref() calls, the callback's argument and the value
\* the poll breaks with (out is what the callback returns when called).
PollImplMatch(item, rem, estr, out) ==
    CASE item.t = "Limited" ->
            [cont |-> FALSE, wake |-> 0,
             cb |-> SomeLen(IF item.n < rem THEN item.n ELSE rem), ret |-> out]
      [] item.t = "Err" /\ item.kind = "WouldBlock" ->
            [cont |-> FALSE, wake |-> 1, cb |-> NotCalled, ret |-> Pending]
      [] item.t = "Err" /\ item.kind = "Interrupted" ->
            [cont |-> TRUE, wake |-> 0, cb |-> NotCalled, ret |-> NoResult]
      [] item.t = "Err" /\ item.kind \notin {"WouldBlock", "Interrupted"} ->
            [cont |-> FALSE, wake |-> 0, cb |-> NotCalled,
             ret |-> ReadyErr(item.kind, estr)]
      [] item.t \in {"Unlimited", "None"} ->
            [cont |-> FALSE, wake |-> 0, cb |-> NoBound, ret |-> out]

\* Mutant of PollImplNoLimitMatch: Err(WouldBlock) returns Pending without
\* waking the task.
PollImplNoLimitMatch_NoWake(item, estr, out) ==
    CASE item.t = "Err" /\ item.kind = "WouldBlock" ->
            [cont |-> FALSE, wake |-> 0, cb |-> NotCalled, ret |-> Pending]
      [] item.t = "Err" /\ item.kind = "Interrupted" ->
            [cont |-> TRUE, wake |-> 0, cb |-> NotCalled, ret |-> NoResult]
      [] item.t = "Err" /\ item.kind \notin {"WouldBlock", "Interrupted"} ->
            [cont |-> FALSE, wake |-> 0, cb |-> NotCalled,
             ret |-> ReadyErr(item.kind, estr)]
      [] OTHER ->
            [cont |-> FALSE, wake |-> 0, cb |-> NoArg, ret |-> out]

\* Mutant of PollImplNoLimitMatch: the error is built with ErrorKind::Other
\* instead of the directive's kind.
PollImplNoLimitMatch_KindLost(item, estr, out) ==
    CASE item.t = "Err" /\ item.kind = "WouldBlock" ->
            [cont |-> FALSE, wake |-> 1, cb |-> NotCalled, ret |-> Pending]
      [] item.t = "Err" /\ item.kind = "Interrupted" ->
            [cont |-> TRUE, wake |-> 0, cb |-> NotCalled, ret |-> NoResult]
      [] item.t = "Err" /\ item.kind \notin {"WouldBlock", "Interrupted"} ->
            [cont |-> FALSE, wake |-> 0, cb |-> NotCalled,
             ret |-> ReadyErr("Other", estr)]
      [] OTHER ->
            [cont |-> FALSE, wake |-> 0, cb |-> NoArg, ret |-> out]

\* Mutant of PollImplNoLimitMatch: the Err(Interrupted) arm is missing, so the
\* directive falls to the last arm and the callback is called.
PollImplNoLimitMatch_InterruptedProceeds(item, estr, out) ==
    CASE item.t = "Err" /\ item.kind = "WouldBlock" ->
            [cont |-> FALSE, wake |-> 1, cb |-> NotCalled, ret |-> Pending]
      [] item.t = "Err" /\ item.kind \notin {"WouldBlock", "Interrupted"} ->
            [cont |-> FALSE, wake |-> 0, cb |-> NotCalled,
             ret |-> ReadyErr(item.kind, estr)]
      [] OTHER ->
            [cont |-> FALSE, wake |-> 0, cb |-> NoArg, ret |-> out]

\* One iteration of poll_impl_no_limit's loop.
PollImplNoLimitMatch(item, estr, out) ==
    CASE item.t = "Err" /\ item.kind = "WouldBlock" ->
            [cont |-> FALSE, wake |-> 1, cb |-> NotCalled, ret |-> Pending]
      [] item.t = "Err" /\ item.kind = "Interrupted" ->
            [cont |-> TRUE, wake |-> 0, cb |-> NotCalled, ret |-> NoResult]
      [] item.t = "Err" /\ item.kind \notin {"WouldBlock", "Interrupted"} ->
            [cont |-> FALSE, wake |-> 0, cb |-> NotCalled,
             ret |-> ReadyErr(item.kind, estr)]
      [] OTHER ->
            [cont |-> FALSE, wake |-> 0, cb |-> NoArg, ret |-> out]

\* No poll was made yet.
PollInit ==
    /\ pc = "idle"
    /\ fn = "poll_impl"
    /\ remaining = 0
    /\ errStr = "error during poll_read"
    /\ startCursor = 0
    /\ lastOp = NoneItem
    /\ pollPulls = 0
    /\ pollWakes = 0
    /\ pollCbs = 0
    /\ cbArg = NotCalled
    /\ cbRet = NoResult
    /\ res = NoResult
    /\ wakes = 0

\* No synchronous call was made yet.
SyncInit ==
    /\ srcPos = 0
    /\ sink = <<>>
    /\ log = <<>>

\* Values of the variables of the parts a specification does not use.
NoRepl == [n |-> 0]
NoTwin == [pc |-> "unused"]
NoGen == [st |-> "unused"]
NoShrink == [st |-> "unused"]
NoBuggy == [st |-> "unused"]
NoTask == [st |-> "unused"]

\* No replace() was called, the producer is finite, and there is no second
\* wrapper, scheduled task, generator run, shrink or BuggyWrite.
OtherInit ==
    /\ repl = NoRepl
    /\ cyclic = FALSE
    /\ twin = NoTwin
    /\ task = NoTask
    /\ gen = NoGen
    /\ shr = NoShrink
    /\ bw = NoBuggy

\* FuturesOps::new over any producer.
Init ==
    /\ prod \in Producers
    /\ cursor = 0
    /\ fused = FALSE
    /\ wrapper = "async"
    /\ flaky = FALSE
    /\ PollInit
    /\ SyncInit
    /\ OtherInit

\* Entry of a poll call: the loop starts with nothing pulled.
Enter(f, rem, estr) ==
    /\ pc = "idle"
    /\ pc' = "loop"
    /\ fn' = f
    /\ remaining' = rem
    /\ errStr' = estr
    /\ startCursor' = cursor
    /\ lastOp' = NoneItem
    /\ pollPulls' = 0
    /\ pollWakes' = 0
    /\ pollCbs' = 0
    /\ cbArg' = NotCalled
    /\ cbRet' = NoResult
    /\ res' = NoResult
    /\ UNCHANGED <<prod, cursor, fused, wakes, wrapper, flaky, syncVars,
                   otherVars>>

PollImplCall ==
    /\ \E rem \in 0..MaxRemaining, estr \in ErrStrs :
          Enter("poll_impl", rem, estr)
    /\ UNCHANGED <<twin, task>>

PollImplNoLimitCall ==
    /\ \E estr \in ErrStrs : Enter("poll_impl_no_limit", 0, estr)
    /\ UNCHANGED <<twin, task>>

\* Mutant of Iterate: an Err(WouldBlock) is looked at but left in the queue,
\* so the next poll sees it again.
Iterate_PeekWouldBlock(q, e, out) ==
    /\ cursor' = IF q.item = Err("WouldBlock") THEN cursor ELSE q.cursor
    /\ fused' = q.fused
    /\ lastOp' = q.item
    /\ pollPulls' = pollPulls + 1
    /\ pollWakes' = pollWakes + e.wake
    /\ wakes' = IF wakes < MaxLen THEN wakes + e.wake ELSE wakes
    /\ pollCbs' = pollCbs + (IF e.cb = NotCalled THEN 0 ELSE 1)
    /\ cbArg' = e.cb
    /\ cbRet' = IF e.cb = NotCalled THEN NoResult ELSE out
    /\ res' = e.ret
    /\ pc' = IF e.cont THEN pc ELSE "idle"
    /\ UNCHANGED <<prod, fn, remaining, errStr, startCursor, wrapper, flaky,
                   syncVars, otherVars>>

\* The effect e of one loop iteration that pulled q.
Iterate(q, e, out) ==
    /\ cursor' = q.cursor
    /\ fused' = q.fused
    /\ lastOp' = q.item
    /\ pollPulls' = pollPulls + 1
    /\ pollWakes' = pollWakes + e.wake
    /\ wakes' = wakes + e.wake
    /\ pollCbs' = pollCbs + (IF e.cb = NotCalled THEN 0 ELSE 1)
    /\ cbArg' = e.cb
    /\ cbRet' = IF e.cb = NotCalled THEN NoResult ELSE out
    /\ res' = e.ret
    /\ pc' = IF e.cont THEN pc ELSE "idle"
    /\ UNCHANGED <<prod, fn, remaining, errStr, startCursor, wrapper, flaky,
                   syncVars, otherVars>>

PollImplIter ==
    /\ pc = "loop"
    /\ fn = "poll_impl"
    /\ \E out \in CbOutcomes :
          Iterate(OpsNext(prod, cursor, fused),
                  PollImplMatch(OpsNext(prod, cursor, fused).item,
                                remaining, errStr, out),
                  out)
    /\ UNCHANGED <<twin, task>>

PollImplNoLimitIter ==
    /\ pc = "loop"
    /\ fn = "poll_impl_no_limit"
    /\ \E out \in CbOutcomes :
          Iterate(OpsNext(prod, cursor, fused),
                  PollImplNoLimitMatch(OpsNext(prod, cursor, fused).item,
                                       errStr, out),
                  out)
    /\ UNCHANGED <<twin, task>>

Next ==
    \/ PollImplCall
    \/ PollImplNoLimitCall
    \/ PollImplIter
    \/ PollImplNoLimitIter

Spec == Init /\ [][Next]_vars

\* =====================================================================
\* Synchronous wrappers PartialRead and PartialWrite
\* =====================================================================

\* Cursor<Vec<u8>>::read into a buffer of len bytes at position pos; a
\* failing inner resource returns its own error on every call.
InnerRead(bad, pos, len) ==
    IF bad
    THEN [ret |-> SErr("BrokenPipe", "inner"), pos |-> pos, bytes |-> <<>>]
    ELSE LET k == IF len < Len(HelloWorld) - pos THEN len
                  ELSE Len(HelloWorld) - pos
         IN  [ret |-> SOk(k), pos |-> pos + k,
              bytes |-> SubSeq(HelloWorld, pos + 1, pos + k)]

\* Vec<u8>::write of a slice: all of it is appended.
InnerWrite(bad, snk, slice) ==
    IF bad
    THEN [ret |-> SErr("BrokenPipe", "inner"), sink |-> snk]
    ELSE [ret |-> SOk(Len(slice)), sink |-> snk \o slice]

\* Vec<u8>::flush.
InnerFlush(bad) == IF bad THEN SErr("BrokenPipe", "inner") ELSE FlushOk

\* Mutant of SyncPull: the wrapper retries an injected Interrupted by pulling
\* the next directive, as the asynchronous helpers do.
SyncPull_RetriesInterrupted(p, c, f) ==
    IF OpsNext(p, c, f).item = Err("Interrupted")
    THEN OpsNext(p, OpsNext(p, c, f).cursor, OpsNext(p, c, f).fused)
    ELSE OpsNext(p, c, f)

\* The one directive a read, write or flush call pulls.
SyncPull(p, c, f) == OpsNext(p, c, f)

\* Mutant of SyncMatch: Limited(n) passes n bytes on, also above the length
\* the caller asked for.
SyncMatch_NoMin(item, m) ==
    CASE item.t = "Err" -> [call |-> FALSE, kind |-> item.kind, len |-> 0]
      [] item.t = "Limited" -> [call |-> TRUE, kind |-> "", len |-> item.n]
      [] OTHER -> [call |-> TRUE, kind |-> "", len |-> m]

\* Mutant of SyncMatch: the injected error always has kind Other.
SyncMatch_KindLost(item, m) ==
    CASE item.t = "Err" -> [call |-> FALSE, kind |-> "Other", len |-> 0]
      [] item.t = "Limited" ->
            [call |-> TRUE, kind |-> "", len |-> IF item.n < m THEN item.n ELSE m]
      [] OTHER -> [call |-> TRUE, kind |-> "", len |-> m]

\* Mutant of SyncMatch: Limited(n) is treated as Unlimited.
SyncMatch_IgnoresLimit(item, m) ==
    CASE item.t = "Err" -> [call |-> FALSE, kind |-> item.kind, len |-> 0]
      [] OTHER -> [call |-> TRUE, kind |-> "", len |-> m]

\* read(buf) / write(buf) with m = buf.len() on the directive pulled: Fail
\* does not call the inner resource, Limited(n) calls it with min(m, n)
\* bytes, Unlimited and an exhausted queue with m bytes.
SyncMatch(item, m) ==
    CASE item.t = "Err" -> [call |-> FALSE, kind |-> item.kind, len |-> 0]
      [] item.t = "Limited" ->
            [call |-> TRUE, kind |-> "", len |-> IF item.n < m THEN item.n ELSE m]
      [] OTHER -> [call |-> TRUE, kind |-> "", len |-> m]

\* Mutant of FlushMatch: Limited(0) is taken as "nothing may be flushed" and
\* the call returns Ok without the inner flush.
FlushMatch_ZeroSkipsInner(item) ==
    CASE item.t = "Err" -> [call |-> FALSE, kind |-> item.kind, len |-> 0]
      [] item = Limited(0) -> [call |-> FALSE, kind |-> "WriteZero", len |-> 0]
      [] OTHER -> [call |-> TRUE, kind |-> "", len |-> 0]

\* flush() on the directive pulled: Fail returns the error, anything else
\* proceeds to the inner flush.
FlushMatch(item) ==
    CASE item.t = "Err" -> [call |-> FALSE, kind |-> item.kind, len |-> 0]
      [] OTHER -> [call |-> TRUE, kind |-> "", len |-> 0]

\* What the call returns: the injected error, or the inner call's result.
SyncReturn(d, innerRet, what) ==
    IF d.call THEN innerRet ELSE SErr(d.kind, what)

\* PartialRead::new / PartialWrite::new over any producer and inner resource.
InitSync ==
    /\ prod \in SyncProducers
    /\ cursor = 0
    /\ fused = FALSE
    /\ wrapper \in {"PartialRead", "PartialWrite"}
    /\ flaky \in BOOLEAN
    /\ PollInit
    /\ SyncInit
    /\ OtherInit

\* The call is logged with the inner resource's state before and after it.
Logged(op, m, q, d, innerRet, bytes, pos2, sink2) ==
    /\ cursor' = q.cursor
    /\ fused' = q.fused
    /\ srcPos' = pos2
    /\ sink' = sink2
    /\ log' = Append(log,
                [op |-> op, m |-> m, item |-> q.item, at |-> cursor,
                 called |-> d.call, len |-> d.len, innerRet |-> innerRet,
                 ret |-> SyncReturn(d, innerRet, op), bytes |-> bytes,
                 pos |-> srcPos, pos2 |-> pos2, sink |-> sink, sink2 |-> sink2])
    /\ UNCHANGED <<prod, wrapper, flaky, pollVars, otherVars, twin, task>>

\* PartialRead::read(&mut buf) with buf.len() = m.
Read ==
    /\ wrapper = "PartialRead"
    /\ Len(log) < MaxCalls
    /\ \E m \in ReadLens :
          LET q == SyncPull(prod, cursor, fused)
              d == SyncMatch(q.item, m)
              r == InnerRead(flaky, srcPos, d.len)
          IN  IF d.call
              THEN Logged("read", m, q, d, r.ret, r.bytes, r.pos, sink)
              ELSE Logged("read", m, q, d, NoInner, <<>>, srcPos, sink)

\* PartialWrite::write(buf).
Write ==
    /\ wrapper = "PartialWrite"
    /\ Len(log) < MaxCalls
    /\ \E buf \in WriteBufs :
          LET q == SyncPull(prod, cursor, fused)
              d == SyncMatch(q.item, Len(buf))
              r == InnerWrite(flaky, sink, SubSeq(buf, 1, d.len))
          IN  IF d.call
              THEN Logged("write", Len(buf), q, d, r.ret, SubSeq(buf, 1, d.len),
                          srcPos, r.sink)
              ELSE Logged("write", Len(buf), q, d, NoInner, <<>>, srcPos, sink)

\* PartialWrite::flush().
Flush ==
    /\ wrapper = "PartialWrite"
    /\ Len(log) < MaxCalls
    /\ LET q == SyncPull(prod, cursor, fused)
           d == FlushMatch(q.item)
       IN  IF d.call
           THEN Logged("flush", 0, q, d, InnerFlush(flaky), <<>>, srcPos, sink)
           ELSE Logged("flush", 0, q, d, NoInner, <<>>, srcPos, sink)

NextSync ==
    \/ Read
    \/ Write
    \/ Flush

SpecSync == InitSync /\ [][NextSync]_vars

\* =====================================================================
\* FuturesOps::replace
\* =====================================================================

\* The producers given to FuturesOps::new and replace().
ReplProducers ==
    SeqsUpTo({Limited(1), Err("WouldBlock"), NoneItem}, MaxReplLen)

\* make_ops(iter): a fused iterator over iter, nothing pulled yet.
MakeOps(iter) == [prod |-> iter, cursor |-> 0, fused |-> FALSE]

\* Mutant of ReplaceOps: the producer is swapped beneath the Fuse in place,
\* whose flag stays as it was.
ReplaceOps_KeepsLatch(iter, c, f) == [prod |-> iter, cursor |-> 0, fused |-> f]

\* self.ops = make_ops(iter): the old iterator, at position c with flag f, is
\* dropped.
ReplaceOps(iter, c, f) == MakeOps(iter)

\* Items of the queue not pulled yet.
QueueLeft(p, c, f) ==
    IF f THEN 0
    ELSE Cardinality({i \in (c + 1)..Len(p) :
                         \A j \in (c + 1)..i : p[j] # NoneItem})

InitReplace ==
    /\ prod \in ReplProducers
    /\ cursor = 0
    /\ fused = FALSE
    /\ wrapper = "async"
    /\ flaky = FALSE
    /\ PollInit
    /\ SyncInit
    /\ OtherInit

\* FuturesOps::replace(iter), between two polls.  What the last poll left in
\* the registers is forgotten.
Replace ==
    /\ pc = "idle"
    /\ repl.n < MaxReplaces
    /\ \E new \in ReplProducers :
          /\ prod' = ReplaceOps(new, cursor, fused).prod
          /\ cursor' = ReplaceOps(new, cursor, fused).cursor
          /\ fused' = ReplaceOps(new, cursor, fused).fused
          /\ repl' = [n |-> repl.n + 1, new |-> new, wasFused |-> fused,
                      left |-> QueueLeft(prod, cursor, fused)]
    /\ startCursor' = 0
    /\ lastOp' = NoneItem
    /\ pollPulls' = 0
    /\ pollWakes' = 0
    /\ pollCbs' = 0
    /\ cbArg' = NotCalled
    /\ cbRet' = NoResult
    /\ res' = NoResult
    /\ UNCHANGED <<pc, fn, remaining, errStr, wakes, wrapper, flaky, syncVars,
                   cyclic, twin, gen, shr, bw, task>>

NextReplace ==
    \/ PollImplCall
    \/ PollImplNoLimitCall
    \/ PollImplIter
    \/ PollImplNoLimitIter
    \/ Replace

SpecReplace == InitReplace /\ [][NextReplace]_vars


\* ------------------------------------------------------ quickcheck generator
\* Largest g.size() of the generator runs explored.
MaxSize == 3

\* The four GenError policies.
Policies ==
    {"GenInterrupted", "GenWouldBlock", "GenInterruptedWouldBlock",
     "GenNoErrors"}

\* The error list each impl_gen_error! instance chooses from; GenNoErrors has
\* none.
PolicyErrors(pol) ==
    CASE pol = "GenInterrupted" -> {"Interrupted"}
      [] pol = "GenWouldBlock" -> {"WouldBlock"}
      [] pol = "GenInterruptedWouldBlock" -> {"Interrupted", "WouldBlock"}
      [] pol = "GenNoErrors" -> {}

\* gen_error(g): with gen_ratio(1, 5) Some(one of the policy's kinds), else
\* None; GenNoErrors always answers None.
GenErrorOutcomes(pol) ==
    {[some |-> TRUE, kind |-> k] : k \in PolicyErrors(pol)}
        \cup {[some |-> FALSE]}

\* rng.gen_range(lo..hi): a value of the half-open range, or a panic when the
\* range is empty.
GenRange(lo, hi) ==
    IF lo < hi THEN {[ok |-> TRUE, v |-> k] : k \in lo..(hi - 1)}
    ELSE {[ok |-> FALSE]}

\* A position of the other parts when only a generator, a shrinker or a
\* BuggyWrite runs.
NoWrapper ==
    /\ prod = <<>>
    /\ cursor = 0
    /\ fused = FALSE
    /\ wrapper = "none"
    /\ flaky = FALSE
    /\ PollInit
    /\ SyncInit

\* PartialWithErrors::<GE>::arbitrary(g) is entered with any g.size() and any
\* policy GE.
InitGen ==
    /\ NoWrapper
    /\ repl = NoRepl
    /\ cyclic = FALSE
    /\ twin = NoTwin
    /\ task = NoTask
    /\ shr = NoShrink
    /\ bw = NoBuggy
    /\ \E s \in 0..MaxSize, pol \in Policies :
          gen = [st |-> "run", size |-> s, policy |-> pol, items |-> <<>>]

\* One element of (0..size).map(|_| ...): the policy is asked for an error;
\* on None a Limited(gen_range(1..size)) is produced, and a panic of gen_range
\* unwinds out of arbitrary().
ArbitraryItem ==
    /\ gen.st = "run"
    /\ Len(gen.items) < gen.size
    /\ \E e \in GenErrorOutcomes(gen.policy) :
          IF e.some
          THEN gen' = [gen EXCEPT !.items = Append(@, Err(e.kind))]
          ELSE \E r \in GenRange(1, gen.size) :
                  IF r.ok
                  THEN gen' = [gen EXCEPT !.items = Append(@, Limited(r.v))]
                  ELSE gen' = [gen EXCEPT !.st = "panic"]
    /\ UNCHANGED <<prod, cursor, fused, wrapper, flaky, pollVars, syncVars,
                   repl, cyclic, twin, shr, bw, task>>

\* .collect() after the last element: arbitrary() returns the items.
ArbitraryCollect ==
    /\ gen.st = "run"
    /\ Len(gen.items) = gen.size
    /\ gen' = [gen EXCEPT !.st = "done"]
    /\ UNCHANGED <<prod, cursor, fused, wrapper, flaky, pollVars, syncVars,
                   repl, cyclic, twin, shr, bw, task>>

NextGen ==
    \/ ArbitraryItem
    \/ ArbitraryCollect

SpecGen == InitGen /\ [][NextGen]_vars


\* ------------------------------------------------------ quickcheck shrinking
\* Longest seed vector and largest Limited value of the shrink runs explored.
MaxShrinkLen == 3
MaxShrinkN == 3

\* x/2, x/4, ... down to 1: the distances the unsigned shrinker subtracts.
RECURSIVE Halvings(_)
Halvings(i) == IF i = 0 THEN {} ELSE {i} \cup Halvings(i \div 2)

\* Mutant of UsizeShrink: the shrinker does not stop when the distance has
\* come down to 0, and yields n itself.
UsizeShrink_YieldsSelf(n) ==
    IF n = 0 THEN {} ELSE {0} \cup {n - i : i \in Halvings(n \div 2) \cup {0}}

\* n.shrink() of a usize: nothing for 0, else 0 and then n - n/2, n - n/4, ...
\* while the result is below n.
UsizeShrink(n) ==
    IF n = 0 THEN {} ELSE {0} \cup {n - i : i \in Halvings(n \div 2)}

\* Mutant of OpShrink: the filter(|k| k != &0) is left out.
OpShrink_KeepsZero(op) ==
    IF op.t = "Limited" THEN {Limited(k) : k \in UsizeShrink(op.n)} ELSE {}

\* Mutant of OpShrink: the other variants are shrunk as well, an error to
\* Interrupted and Unlimited to Limited(1).
OpShrink_ShrinksOthers(op) ==
    CASE op.t = "Limited" -> {Limited(k) : k \in UsizeShrink(op.n) \ {0}}
      [] op.t = "Err" -> {Err("Interrupted")} \ {op}
      [] OTHER -> {Limited(1)}

\* <PartialOp as Arbitrary>::shrink: the candidates of one directive.
OpShrink(op) ==
    IF op.t = "Limited"
    THEN {Limited(k) : k \in {j \in UsizeShrink(op.n) : j # 0}}
    ELSE {}

\* v without the s elements before offset o.
RemoveChunk(v, o, s) == SubSeq(v, 1, o - s) \o SubSeq(v, o + 1, Len(v))

\* v with its i-th element replaced by e.
ReplaceAt(v, i, e) == [v EXCEPT ![i] = e]

\* self.items.clone().shrink(), the shrinker of Vec<PartialOp>: nothing for an
\* empty vector; else the empty vector, then the vector without each chunk of
\* len/2, len/4, ... elements at the multiples of that size, then the vector
\* with one element replaced by each of its own candidates.
VecShrink(v) ==
    IF v = <<>> THEN {}
    ELSE {<<>>}
         \cup {RemoveChunk(v, k * s, s) :
                  <<k, s>> \in {ks \in (1..Len(v)) \X Halvings(Len(v) \div 2) :
                                   ks[1] * ks[2] <= Len(v)}}
         \cup UNION {{ReplaceAt(v, i, e) : e \in OpShrink(v[i])} :
                        i \in 1..Len(v)}

\* The directives a seed is made of; Limited(0) can be built by hand.
ShrinkOps ==
    {Limited(n) : n \in 0..MaxShrinkN}
        \cup {Unlimited, Err("Interrupted"), Err("WouldBlock")}

\* quickcheck starts to shrink a failing PartialWithErrors.
InitShrink ==
    /\ NoWrapper
    /\ repl = NoRepl
    /\ cyclic = FALSE
    /\ twin = NoTwin
    /\ task = NoTask
    /\ gen = NoGen
    /\ bw = NoBuggy
    /\ \E v \in SeqsUpTo(ShrinkOps, MaxShrinkLen) :
          shr = [st |-> "seed", seed |-> v, prev |-> v, cur |-> v]

\* PartialWithErrors::shrink on the current value, and quickcheck moving on to
\* one of the candidates.
Shrink ==
    /\ shr.st \in {"seed", "shrunk"}
    /\ \E c \in VecShrink(shr.cur) :
          shr' = [st |-> "shrunk", seed |-> shr.seed, prev |-> shr.cur,
                  cur |-> c]
    /\ UNCHANGED <<prod, cursor, fused, wrapper, flaky, pollVars, syncVars,
                   repl, cyclic, twin, gen, bw, task>>

NextShrink == Shrink

SpecShrink == InitShrink /\ [][NextShrink]_vars


\* Longest seed of the shrink chains followed to their end.
MaxChainLen == 2

\* quickcheck starts to shrink a failing PartialWithErrors, as in InitShrink.
InitShrinkChain ==
    /\ NoWrapper
    /\ repl = NoRepl
    /\ cyclic = FALSE
    /\ twin = NoTwin
    /\ task = NoTask
    /\ gen = NoGen
    /\ bw = NoBuggy
    /\ \E v \in SeqsUpTo(ShrinkOps, MaxChainLen) :
          shr = [st |-> "seed", seed |-> v, prev |-> v, cur |-> v]

\* quickcheck goes on shrinking as long as it is handed a failing candidate:
\* a chain of shrink steps is followed to its end.
SpecShrinkChain == InitShrinkChain /\ [][NextShrink]_vars /\ WF_vars(Shrink)


\* =====================================================================
\* examples/buggy_write.rs: BuggyWrite over PartialWrite over Vec<u8>
\* =====================================================================
\* Longest directive sequence and largest Limited value handed to
\* buggy_write_internal.
MaxBuggyLen == 3
MaxBuggyN == 2

\* "Hello".repeat(50) and "World".repeat(40).
HelloReps == 50
WorldReps == 40
Repeat(w, k) == [i \in 1..(Len(w) * k) |-> w[((i - 1) % Len(w)) + 1]]
HELLO_STR == Repeat(<<"H", "e", "l", "l", "o">>, HelloReps)
WORLD_STR == Repeat(<<"W", "o", "r", "l", "d">>, WorldReps)

\* The directive sequences handed to buggy_write_internal: the test's own and
\* those of PartialWithErrors<GenInterrupted>.
BuggyOps ==
    {Err("Interrupted"), Unlimited} \cup {Limited(k) : k \in 1..MaxBuggyN}

\* write_from_offset(): inner writes of buf[offset..] until all of buf is
\* written or one of them fails; s holds the writer's fields and the
\* PartialWrite's queue position and sink.
RECURSIVE WriteFromOffset(_)
WriteFromOffset(s) ==
    IF s.offset >= Len(s.buf) THEN [s EXCEPT !.res = FlushOk]
    ELSE LET q == SyncPull(prod, s.cursor, s.fused)
             slice == SubSeq(s.buf, s.offset + 1, Len(s.buf))
             d == SyncMatch(q.item, Len(slice))
             r == InnerWrite(FALSE, s.sink, SubSeq(slice, 1, d.len))
             ret == SyncReturn(d, r.ret, "write")
         IN  IF ret.ok
             THEN WriteFromOffset([s EXCEPT !.cursor = q.cursor,
                                            !.fused = q.fused,
                                            !.sink = r.sink,
                                            !.offset = @ + ret.v])
             ELSE [s EXCEPT !.cursor = q.cursor, !.fused = q.fused,
                            !.res = ret]

\* Mutant of Leftover: what is left in the internal buffer is dropped.
Leftover_Dropped(s) == [s EXCEPT !.res = FlushOk]

\* write(), first step: write out anything that is currently in the internal
\* buffer.
Leftover(s) ==
    IF s.offset < Len(s.buf) THEN WriteFromOffset(s)
    ELSE [s EXCEPT !.res = FlushOk]

\* reset_buffer().
ResetBuffer(s) == [s EXCEPT !.buf = <<>>, !.offset = 0]

\* Mutant of WriteNow: the fix the source names, the immediate
\* write_from_offset()? is left out.
WriteNow_Fixed(s) == [s EXCEPT !.res = FlushOk]

\* write(), the line marked BUG: the bytes just taken are written at once.
WriteNow(s) == WriteFromOffset(s)

\* <BuggyWrite as Write>::write(data).
BuggyWriteCall(s, data) ==
    LET s1 == Leftover(s)
        s2 == ResetBuffer(s1)
        s3 == WriteNow([s2 EXCEPT !.buf = @ \o data])
    IN  IF ~s1.res.ok THEN s1
        ELSE IF ~s3.res.ok THEN s3
        ELSE [s3 EXCEPT !.res = SOk(Len(s3.buf))]

\* <BuggyWrite as Write>::flush(): the pending bytes, then the inner flush of
\* the PartialWrite.
BuggyFlushCall(s) ==
    LET s1 == WriteFromOffset(s)
        s2 == ResetBuffer(s1)
        q == SyncPull(prod, s2.cursor, s2.fused)
        d == FlushMatch(q.item)
    IN  IF ~s1.res.ok THEN s1
        ELSE [s2 EXCEPT !.cursor = q.cursor, !.fused = q.fused,
                        !.res = SyncReturn(d, InnerFlush(FALSE), "flush")]

\* The writer's fields and the state of the PartialWrite below it.
BuggyState ==
    [cursor |-> cursor, fused |-> fused, sink |-> sink, buf |-> bw.buf,
     offset |-> bw.offset, res |-> FlushOk]

\* buggy_write_internal(partial_iter): PartialWrite::new over an empty Vec,
\* BuggyWrite::new over it.
InitBuggy ==
    /\ prod \in SeqsUpTo(BuggyOps, MaxBuggyLen)
    /\ cursor = 0
    /\ fused = FALSE
    /\ wrapper = "PartialWrite"
    /\ flaky = FALSE
    /\ PollInit
    /\ SyncInit
    /\ repl = NoRepl
    /\ cyclic = FALSE
    /\ twin = NoTwin
    /\ task = NoTask
    /\ gen = NoGen
    /\ shr = NoShrink
    /\ bw = [st |-> "new", buf |-> <<>>, offset |-> 0, hello_res |-> NoResult,
             world_res |-> NoResult, flush_res |-> NoResult]

\* The call returned s: the queue position, the sink and the writer's fields
\* are stored, and the result goes to the script's variable.
BuggyStep(s, st2, field) ==
    /\ cursor' = s.cursor
    /\ fused' = s.fused
    /\ sink' = s.sink
    /\ bw' = [bw EXCEPT !.st = st2, !.buf = s.buf, !.offset = s.offset,
                        ![field] = s.res]
    /\ UNCHANGED <<prod, wrapper, flaky, pollVars, srcPos, log, repl, cyclic,
                   twin, gen, shr, task>>

\* let hello_res = buggy_write.write(&HELLO_STR);
WriteHello ==
    /\ bw.st = "new"
    /\ BuggyStep(BuggyWriteCall(BuggyState, HELLO_STR), "hello", "hello_res")

\* let world_res = buggy_write.write(&WORLD_STR);
WriteWorld ==
    /\ bw.st = "hello"
    /\ BuggyStep(BuggyWriteCall(BuggyState, WORLD_STR), "world", "world_res")

\* let flush_res = buggy_write.flush(); the sink is then taken out.
FlushAll ==
    /\ bw.st = "world"
    /\ BuggyStep(BuggyFlushCall(BuggyState), "done", "flush_res")

NextBuggy ==
    \/ WriteHello
    \/ WriteWorld
    \/ FlushAll

SpecBuggy == InitBuggy /\ [][NextBuggy]_vars


\* =====================================================================
\* The retry loop over finite and over infinite producers
\* =====================================================================
\* Longest producer (or period of an infinite one) and the count at which
\* the per-poll pull counter of a poll over an infinite producer stops.
MaxLoopLen == 2
MaxPulls == 3

\* Finite producers, and the periods of the infinite ones (an iterator such as
\* iter::repeat or cycle, which never returns None).
LoopProducers ==
    SeqsUpTo({Err("Interrupted"), Err("WouldBlock"), Limited(1)}, MaxLoopLen)
LoopPeriods ==
    SeqsUpTo({Err("Interrupted"), Limited(1)}, MaxLoopLen) \ {<<>>}

\* self.ops.next(): over an infinite producer the period's next item, with
\* the cursor kept within the period; else as OpsNext.
LoopNext(p, c, f) ==
    IF cyclic
    THEN [item |-> p[(c % Len(p)) + 1], cursor |-> (c + 1) % Len(p),
          fused |-> FALSE]
    ELSE OpsNext(p, c, f)

\* FuturesOps::new over a finite or an infinite producer.
InitLoop ==
    /\ cyclic \in BOOLEAN
    /\ prod \in (IF cyclic THEN LoopPeriods ELSE LoopProducers)
    /\ cursor = 0
    /\ fused = FALSE
    /\ wrapper = "async"
    /\ flaky = FALSE
    /\ PollInit
    /\ SyncInit
    /\ repl = NoRepl
    /\ twin = NoTwin
    /\ task = NoTask
    /\ gen = NoGen
    /\ shr = NoShrink
    /\ bw = NoBuggy

\* Mutant of LoopIterate: an Err(Interrupted) is retried without being taken
\* from the queue.
LoopIterate_RetriesSameItem(q, e, out) ==
    /\ cursor' = IF q.item = Err("Interrupted") THEN cursor ELSE q.cursor
    /\ fused' = q.fused
    /\ lastOp' = q.item
    /\ pollPulls' = IF pollPulls >= MaxPulls THEN pollPulls ELSE pollPulls + 1
    /\ pollWakes' = pollWakes + e.wake
    /\ wakes' = IF wakes >= MaxPulls THEN wakes ELSE wakes + e.wake
    /\ pollCbs' = pollCbs + (IF e.cb = NotCalled THEN 0 ELSE 1)
    /\ cbArg' = e.cb
    /\ cbRet' = IF e.cb = NotCalled THEN NoResult ELSE out
    /\ res' = e.ret
    /\ pc' = IF e.cont THEN pc ELSE "idle"
    /\ UNCHANGED <<prod, fn, remaining, errStr, startCursor, wrapper, flaky,
                   syncVars, otherVars, twin, task>>

\* The effect e of one loop iteration that pulled q, as in Iterate; the pulls
\* of one poll over an infinite producer are counted up to MaxPulls.
LoopIterate(q, e, out) ==
    /\ cursor' = q.cursor
    /\ fused' = q.fused
    /\ lastOp' = q.item
    /\ pollPulls' = IF cyclic /\ pollPulls >= MaxPulls THEN pollPulls
                    ELSE pollPulls + 1
    /\ pollWakes' = pollWakes + e.wake
    /\ wakes' = wakes + e.wake
    /\ pollCbs' = pollCbs + (IF e.cb = NotCalled THEN 0 ELSE 1)
    /\ cbArg' = e.cb
    /\ cbRet' = IF e.cb = NotCalled THEN NoResult ELSE out
    /\ res' = e.ret
    /\ pc' = IF e.cont THEN pc ELSE "idle"
    /\ UNCHANGED <<prod, fn, remaining, errStr, startCursor, wrapper, flaky,
                   syncVars, otherVars, twin, task>>

\* One iteration of poll_impl's loop.
LoopPollImplIter ==
    /\ pc = "loop"
    /\ fn = "poll_impl"
    /\ \E out \in CbOutcomes :
          LoopIterate(LoopNext(prod, cursor, fused),
                      PollImplMatch(LoopNext(prod, cursor, fused).item,
                                    remaining, errStr, out),
                      out)

\* One iteration of poll_impl_no_limit's loop.
LoopPollImplNoLimitIter ==
    /\ pc = "loop"
    /\ fn = "poll_impl_no_limit"
    /\ \E out \in CbOutcomes :
          LoopIterate(LoopNext(prod, cursor, fused),
                      PollImplNoLimitMatch(LoopNext(prod, cursor, fused).item,
                                           errStr, out),
                      out)

NextLoop ==
    \/ PollImplCall
    \/ PollImplNoLimitCall
    \/ LoopPollImplIter
    \/ LoopPollImplNoLimitIter

\* A poll call runs on its caller's thread: once entered, the loop's next
\* iteration is always taken.  Whether another poll is made is up to the
\* caller.
SpecLoop ==
    /\ InitLoop
    /\ [][NextLoop]_vars
    /\ WF_vars(LoopPollImplIter)
    /\ WF_vars(LoopPollImplNoLimitIter)


\* =====================================================================
\* poll_impl_no_limit beside poll_impl on the sequence without bounds
\* =====================================================================
\* Longest producer of the two wrappers run side by side.
MaxEquivLen == 2

EquivProducers ==
    SeqsUpTo({Limited(0), Limited(1), Unlimited, Err("Interrupted"),
              Err("WouldBlock"), Err("BrokenPipe"), NoneItem}, MaxEquivLen)

\* The sequence p with every Limited(n) replaced by Unlimited.
Unbounded(p) ==
    [i \in 1..Len(p) |-> IF p[i].t = "Limited" THEN Unlimited ELSE p[i]]

\* A second FuturesOps, not polled yet: its queue position, the position of
\* its poll and what its current poll did.
TwinInit ==
    [pc |-> "idle", cursor |-> 0, fused |-> FALSE, pulls |-> 0,
     pollWakes |-> 0, wakes |-> 0, cbs |-> 0, cbArg |-> NotCalled,
     res |-> NoResult]

\* FuturesOps::new twice: one over p, polled with poll_impl_no_limit, and one
\* over Unbounded(p), polled with poll_impl.
InitEquiv ==
    /\ prod \in EquivProducers
    /\ cursor = 0
    /\ fused = FALSE
    /\ wrapper = "async"
    /\ flaky = FALSE
    /\ PollInit
    /\ SyncInit
    /\ repl = NoRepl
    /\ cyclic = FALSE
    /\ twin = TwinInit
    /\ task = NoTask
    /\ gen = NoGen
    /\ shr = NoShrink
    /\ bw = NoBuggy

\* Both wrappers are polled, the second with some `remaining`.
EquivCall ==
    /\ twin.pc = "idle"
    /\ \E rem \in 0..MaxRemaining, estr \in ErrStrs :
          Enter("poll_impl_no_limit", rem, estr)
    /\ twin' = [twin EXCEPT !.pc = "loop", !.pulls = 0, !.pollWakes = 0,
                            !.cbs = 0, !.cbArg = NotCalled, !.res = NoResult]
    /\ UNCHANGED task

\* One iteration of poll_impl's loop in the second wrapper: q is pulled, e is
\* its effect.
TwinIterate(q, e) ==
    [pc |-> IF e.cont THEN "loop" ELSE "idle",
     cursor |-> q.cursor,
     fused |-> q.fused,
     pulls |-> twin.pulls + 1,
     pollWakes |-> twin.pollWakes + e.wake,
     wakes |-> twin.wakes + e.wake,
     cbs |-> twin.cbs + (IF e.cb = NotCalled THEN 0 ELSE 1),
     cbArg |-> e.cb,
     res |-> e.ret]

\* One iteration of the first wrapper's loop and, if the second wrapper's
\* poll is still in its loop, one of it; the inner callbacks behave alike.
EquivIter ==
    /\ pc = "loop"
    /\ \E out \in CbOutcomes :
          /\ Iterate(OpsNext(prod, cursor, fused),
                     PollImplNoLimitMatch(OpsNext(prod, cursor, fused).item,
                                          errStr, out),
                     out)
          /\ twin' =
                IF twin.pc = "loop"
                THEN TwinIterate(
                        OpsNext(Unbounded(prod), twin.cursor, twin.fused),
                        PollImplMatch(
                            OpsNext(Unbounded(prod), twin.cursor,
                                    twin.fused).item,
                            remaining, errStr, out))
                ELSE twin
    /\ UNCHANGED task

NextEquiv ==
    \/ EquivCall
    \/ EquivIter

SpecEquiv == InitEquiv /\ [][NextEquiv]_vars


\* =====================================================================
\* A task that polls the wrapper, and the executor that runs it
\* =====================================================================
\* Longest producer of the wrapper a task polls.
MaxTaskLen == 3

TaskProducers ==
    SeqsUpTo({Err("WouldBlock"), Err("Interrupted"), Err("BrokenPipe"),
              Limited(1), NoneItem}, MaxTaskLen)

\* FuturesOps::new inside a task that was just spawned: it is runnable, was
\* not polled yet and no wake is noted for it.
InitTask ==
    /\ prod \in TaskProducers
    /\ cursor = 0
    /\ fused = FALSE
    /\ wrapper = "async"
    /\ flaky = FALSE
    /\ PollInit
    /\ SyncInit
    /\ repl = NoRepl
    /\ cyclic = FALSE
    /\ twin = NoTwin
    /\ gen = NoGen
    /\ shr = NoShrink
    /\ bw = NoBuggy
    /\ task = [st |-> "runnable", woken |-> FALSE, polls |-> 0]

\* The executor polls the runnable task, whose operation calls helper f.
TaskPolled(f, rem, estr) ==
    /\ task.st = "runnable"
    /\ Enter(f, rem, estr)
    /\ task' = [task EXCEPT !.st = "polling", !.polls = @ + 1]

TaskPollImpl ==
    /\ \E rem \in 0..MaxRemaining, estr \in ErrStrs :
          TaskPolled("poll_impl", rem, estr)
    /\ UNCHANGED twin

TaskPollImplNoLimit ==
    /\ \E estr \in ErrStrs : TaskPolled("poll_impl_no_limit", 0, estr)
    /\ UNCHANGED twin

\* One loop iteration inside the task's poll: wake_by_ref() is noted by the
\* executor; a poll that returns Pending without having called the callback
\* parks the task, any other return ends the operation's injected part.
TaskIterate(q, e, out) ==
    /\ task.st = "polling"
    /\ Iterate(q, e, out)
    /\ task' = [task EXCEPT
                   !.woken = @ \/ e.wake > 0,
                   !.st = IF e.cont THEN "polling"
                          ELSE IF e.ret = Pending /\ e.cb = NotCalled
                               THEN "parked"
                               ELSE "done"]
    /\ UNCHANGED twin

TaskPollImplIter ==
    /\ pc = "loop"
    /\ fn = "poll_impl"
    /\ \E out \in CbOutcomes :
          TaskIterate(OpsNext(prod, cursor, fused),
                      PollImplMatch(OpsNext(prod, cursor, fused).item,
                                    remaining, errStr, out),
                      out)

TaskPollImplNoLimitIter ==
    /\ pc = "loop"
    /\ fn = "poll_impl_no_limit"
    /\ \E out \in CbOutcomes :
          TaskIterate(OpsNext(prod, cursor, fused),
                      PollImplNoLimitMatch(OpsNext(prod, cursor, fused).item,
                                           errStr, out),
                      out)

\* The executor makes a parked task runnable again once a wake was noted for
\* it; a parked task nobody woke stays parked.
TaskWoken ==
    /\ task.st = "parked"
    /\ task.woken
    /\ task' = [task EXCEPT !.st = "runnable", !.woken = FALSE]
    /\ UNCHANGED <<prod, cursor, fused, wrapper, flaky, pollVars, syncVars,
                   otherVars, twin>>

NextTask ==
    \/ TaskPollImpl
    \/ TaskPollImplNoLimit
    \/ TaskPollImplIter
    \/ TaskPollImplNoLimitIter
    \/ TaskWoken

\* The executor polls a runnable task and acts on every wake; a poll that was
\* entered runs its loop on the executor's thread.
SpecTask ==
    /\ InitTask
    /\ [][NextTask]_vars
    /\ WF_vars(TaskPollImpl \/ TaskPollImplNoLimit)
    /\ WF_vars(TaskPollImplIter)
    /\ WF_vars(TaskPollImplNoLimitIter)
    /\ WF_vars(TaskWoken)

\* =====================================================================
\* Properties of the asynchronous helpers (specification Spec)
\* =====================================================================

\* A poll call has returned (at least one directive was pulled by it).
Returned == pc = "idle" /\ pollPulls > 0

\* The producer holds k >= 0 Err(Interrupted) followed by one Unlimited.
InterruptedThenUnlimited(p) ==
    /\ Len(p) >= 1
    /\ p[Len(p)] = Unlimited
    /\ \A i \in 1..(Len(p) - 1) : p[i] = Err("Interrupted")

\* Number of Err(WouldBlock) among the first n items of p.
RECURSIVE WouldBlocksIn(_, _)
WouldBlocksIn(p, n) ==
    IF n = 0 THEN 0
    ELSE WouldBlocksIn(p, n - 1) + (IF p[n] = Err("WouldBlock") THEN 1 ELSE 0)

\* The items pulled from the producer so far: it is never called after its
\* first None, so they are its first `cursor` answers.
Consumed == IF cursor <= Len(prod) THEN cursor ELSE Len(prod)

\* C1: an injected Interrupted is never returned by a poll: a returned
\* Interrupted error is the callback's own result; an Err(Interrupted)
\* pulled keeps the poll in its loop; and over k Err(Interrupted) followed by
\* Unlimited the first poll pulls all k + 1 items, calls the callback once
\* without a bound and returns exactly what the callback returned.
C1_InterruptedNeverObserved ==
    /\ (res.p = "Ready" /\ ~res.ok /\ res.kind = "Interrupted")
          => (pollCbs = 1 /\ res = cbRet)
    /\ (pollPulls > 0 /\ lastOp = Err("Interrupted"))
          => (pc = "loop" /\ res = NoResult /\ pollCbs = 0 /\ pollWakes = 0)
    /\ (InterruptedThenUnlimited(prod) /\ startCursor = 0 /\ Returned)
          => /\ pollPulls = Len(prod)
             /\ cursor = Len(prod)
             /\ pollCbs = 1
             /\ cbArg = (IF fn = "poll_impl" THEN NoBound ELSE NoArg)
             /\ res = cbRet
             /\ res \in CbOutcomes
             /\ pollWakes = 0

\* C1 witness: two Err(Interrupted) then Unlimited, one poll, callback's
\* result returned.
C1_Witness ==
    /\ Len(prod) >= 2
    /\ InterruptedThenUnlimited(prod)
    /\ startCursor = 0
    /\ Returned
    /\ pollPulls = Len(prod)
    /\ res = ReadyOk(1)

\* C2: the waker is invoked once per Err(WouldBlock) consumed and at no
\* other time; the poll that consumes one returns Pending, has invoked the
\* waker once and has not called the callback.
C2_WakePerWouldBlock ==
    /\ wakes = WouldBlocksIn(prod, Consumed)
    /\ pollWakes <= 1
    /\ (pollPulls > 0 /\ lastOp = Err("WouldBlock"))
          => (pc = "idle" /\ res = Pending /\ pollWakes = 1 /\ pollCbs = 0)
    /\ pollWakes = 1 => (pollPulls > 0 /\ lastOp = Err("WouldBlock"))

\* C2 witness: two WouldBlock directives consumed by two polls, two wakes.
C2_Witness ==
    /\ wakes = 2
    /\ Returned
    /\ res = Pending
    /\ pollWakes = 1
    /\ lastOp = Err("WouldBlock")

\* C3: once the producer has returned None, every step leaves the producer
\* alone (cursor and flag unchanged) and every pull yields None, on which
\* the callback is called without a bound and its result returned, also when
\* the producer holds further items.
C3_Fused ==
    [][fused =>
        /\ fused'
        /\ cursor' = cursor
        /\ (pollPulls' = pollPulls + 1) =>
              /\ lastOp' = NoneItem
              /\ pc' = "idle"
              /\ pollCbs' = 1
              /\ cbArg' = (IF fn = "poll_impl" THEN NoBound ELSE NoArg)
              /\ res' = cbRet'
              /\ pollWakes' = 0]_vars

\* C3 witness: a poll made after the first None returned the callback's
\* result although the producer would have yielded another item.
C3_Witness ==
    /\ fused
    /\ cursor < Len(prod)
    /\ prod[cursor + 1] # NoneItem
    /\ startCursor = cursor
    /\ Returned
    /\ pollCbs = 1

\* The directives a returned poll pulled before the one that decided it are
\* all Err(Interrupted).
SkippedInterrupted ==
    \A i \in 1..(pollPulls - 1) :
        ProducerNext(prod, startCursor + i - 1) = Err("Interrupted")

\* C6: a poll_impl call decided by Limited(n) calls the callback once with
\* Some(min(n, remaining)); decided by Unlimited or the end of the queue, once
\* with None; it returns the callback's result and does not wake.
C6_ProceedDelegates ==
    (Returned /\ fn = "poll_impl") =>
        /\ SkippedInterrupted
        /\ lastOp.t = "Limited" =>
              /\ pollCbs = 1
              /\ cbArg = SomeLen(IF lastOp.n <= remaining THEN lastOp.n
                                 ELSE remaining)
              /\ res = cbRet
              /\ res \in CbOutcomes
              /\ pollWakes = 0
        /\ lastOp.t \in {"Unlimited", "None"} =>
              /\ pollCbs = 1
              /\ cbArg = NoBound
              /\ res = cbRet
              /\ res \in CbOutcomes
              /\ pollWakes = 0

\* C6 witness: Limited(n) with n above `remaining`, after an Err(Interrupted),
\* handed to the callback as Some(remaining), the callback returning Pending.
C6_Witness ==
    /\ Returned
    /\ fn = "poll_impl"
    /\ pollPulls = 2
    /\ lastOp.t = "Limited"
    /\ lastOp.n > remaining
    /\ remaining > 0
    /\ cbArg = SomeLen(remaining)
    /\ res = Pending

\* C7: Err(kind) with kind neither WouldBlock nor Interrupted ends the poll
\* with Ready(Err) of that kind and the caller's err_str, without callback or
\* wake; the directive is consumed: the next pull asks the producer for the
\* item after it.
C7_OtherErrorSurfacedOnce ==
    (pollPulls > 0 /\ lastOp.t = "Err"
        /\ lastOp.kind \notin {"WouldBlock", "Interrupted"}) =>
        /\ pc = "idle"
        /\ res = ReadyErr(lastOp.kind, errStr)
        /\ pollCbs = 0
        /\ pollWakes = 0
        /\ cursor = startCursor + pollPulls
        /\ prod[cursor] = lastOp
        /\ OpsNext(prod, cursor, fused).item = ProducerNext(prod, cursor)

\* C7 witness: two different kinds surfaced by two consecutive polls.
C7_Witness ==
    /\ Returned
    /\ cursor = 2
    /\ startCursor = 1
    /\ prod[1] = Err("BrokenPipe")
    /\ res = ReadyErr("InvalidData", "error during poll_flush")

\* C8: an Err(WouldBlock) at position i is consumed by the poll it suspends
\* (cursor = i afterwards); a poll starts at the cursor the last one left and
\* pulls the following items in order; over [Err(WouldBlock)] the first poll
\* returns Pending with one wake and no callback, the second calls the
\* callback without a bound and returns its result.
C8_WouldBlockOneShot ==
    /\ (pollPulls > 0 /\ lastOp = Err("WouldBlock"))
          => /\ pc = "idle"
             /\ res = Pending
             /\ cursor = startCursor + pollPulls
             /\ prod[cursor] = Err("WouldBlock")
    /\ (pc = "loop" /\ pollPulls = 0) => startCursor = cursor
    /\ pollPulls > 0 =>
          IF cursor > startCursor
          THEN cursor = startCursor + pollPulls
                 /\ lastOp = ProducerNext(prod, cursor - 1)
          ELSE fused /\ pollPulls = 1 /\ lastOp = NoneItem
    /\ (prod = <<Err("WouldBlock")>> /\ Returned /\ startCursor = 0)
          => (res = Pending /\ pollWakes = 1 /\ wakes = 1 /\ pollCbs = 0)
    /\ (prod = <<Err("WouldBlock")>> /\ Returned /\ startCursor = 1)
          => /\ pollCbs = 1
             /\ cbArg = (IF fn = "poll_impl" THEN NoBound ELSE NoArg)
             /\ res = cbRet
             /\ res \in CbOutcomes
             /\ pollWakes = 0
             /\ wakes = 1

\* C8 witness: over [Err(WouldBlock)], the second poll (another helper than
\* the one that was suspended) returned the callback's result.
C8_Witness ==
    /\ prod = <<Err("WouldBlock")>>
    /\ Returned
    /\ startCursor = 1
    /\ fn = "poll_impl_no_limit"
    /\ wakes = 1
    /\ res = ReadyOk(0)

\* =====================================================================
\* Properties of the synchronous wrappers (specification SpecSync)
\* =====================================================================

MinOf(a, b) == IF a <= b THEN a ELSE b

\* Length of the queue: the items the producer yields before its first None.
QueueLen(p) ==
    IF \E i \in 1..Len(p) : p[i] = NoneItem
    THEN (CHOOSE i \in 1..Len(p) :
              p[i] = NoneItem /\ \A j \in 1..(i - 1) : p[j] # NoneItem) - 1
    ELSE Len(p)

\* The read and write calls made so far.
ReadsWrites == {i \in DOMAIN log : log[i].op \in {"read", "write"}}

\* C4: a read or write call that pulls Err(kind) returns an error of that
\* kind, whatever the kind (Interrupted and WouldBlock included), does not
\* call the inner resource and leaves its position and contents as they were.
C4_SyncFailUntouched ==
    \A i \in ReadsWrites :
        log[i].item.t = "Err" =>
            /\ log[i].ret = SErr(log[i].item.kind, log[i].op)
            /\ ~log[i].called
            /\ log[i].innerRet = NoInner
            /\ log[i].bytes = <<>>
            /\ log[i].pos2 = log[i].pos
            /\ log[i].sink2 = log[i].sink

\* C4 witness: after a read that delivered 7 bytes, a read pulls
\* Err(WouldBlock), fails with WouldBlock and the Cursor stays at 7, from
\* where the next read goes on.
C4_Witness ==
    /\ Len(log) = 3
    /\ log[2].op = "read"
    /\ log[2].item = Err("WouldBlock")
    /\ log[2].ret = SErr("WouldBlock", "read")
    /\ log[2].pos = 7
    /\ log[2].pos2 = 7
    /\ log[3].pos = 7
    /\ log[3].bytes = SubSeq(HelloWorld, 8, 13)

\* C5: on Limited(n) the inner read/write gets exactly min(n, m) bytes, on
\* Unlimited m bytes, and the call returns what the inner call returned.
C5_SyncBound ==
    \A i \in ReadsWrites :
        log[i].item.t \in {"Limited", "Unlimited"} =>
            /\ log[i].called
            /\ log[i].len = (IF log[i].item.t = "Limited"
                             THEN MinOf(log[i].item.n, log[i].m)
                             ELSE log[i].m)
            /\ log[i].ret = log[i].innerRet
            /\ log[i].innerRet =
                  (IF log[i].op = "read"
                   THEN InnerRead(flaky, log[i].pos, log[i].len).ret
                   ELSE InnerWrite(flaky, log[i].sink, log[i].bytes).ret)
            /\ (log[i].op = "write" => Len(log[i].bytes) = log[i].len)

\* C5 witness: Limited(0) gives the inner write an empty slice, Limited(7)
\* on a 5-byte buffer gives it the 5 bytes.
C5_Witness ==
    /\ wrapper = "PartialWrite"
    /\ ~flaky
    /\ Len(log) = 2
    /\ log[1].item = Limited(0)
    /\ log[1].m = 13
    /\ log[1].len = 0
    /\ log[1].ret = SOk(0)
    /\ log[2].item = Limited(7)
    /\ log[2].m = 5
    /\ log[2].len = 5
    /\ log[2].ret = SOk(5)
    /\ sink = SubSeq(HelloWorld, 1, 5)

\* C9: the i-th call pulls the i-th item of the queue, or finds it exhausted:
\* after k calls min(k, L) directives are consumed, in producer order, none by
\* two calls; each call changes the inner resource by at most one inner call.
C9_OneDirectivePerCall ==
    /\ \A i \in DOMAIN log :
          /\ log[i].item = (IF i <= QueueLen(prod) THEN prod[i] ELSE NoneItem)
          /\ log[i].at = MinOf(i - 1, QueueLen(prod) + 1)
    /\ Cardinality({i \in DOMAIN log : log[i].item # NoneItem})
          = MinOf(Len(log), QueueLen(prod))
    /\ cursor = MinOf(Len(log), QueueLen(prod) + 1)
    /\ \A i \in DOMAIN log :
          /\ log[i].pos2 = (IF log[i].called /\ log[i].op = "read"
                            THEN InnerRead(flaky, log[i].pos, log[i].len).pos
                            ELSE log[i].pos)
          /\ log[i].sink2 = (IF log[i].called /\ log[i].op = "write"
                             THEN InnerWrite(flaky, log[i].sink, log[i].bytes).sink
                             ELSE log[i].sink)

\* C9 witness: three calls (write, flush, write) on a queue of two
\* directives: two consumed, the third call finds the queue exhausted.
C9_Witness ==
    /\ Len(log) = 3
    /\ Len(prod) = 2
    /\ QueueLen(prod) = 2
    /\ log[1].op = "write"
    /\ log[2].op = "flush"
    /\ log[2].item = prod[2]
    /\ log[3].op = "write"
    /\ log[3].item = NoneItem
    /\ cursor = 3

\* The bytes the successful reads among the first n calls returned, in order.
RECURSIVE Got(_)
Got(n) ==
    IF n = 0 THEN <<>>
    ELSE Got(n - 1) \o (IF log[n].ret.ok THEN log[n].bytes ELSE <<>>)

\* C10: the bytes returned by the successful reads are, in order, a prefix
\* of the source; a failed read delivers nothing and leaves the source where
\* it was; on an exhausted queue a read with room for the rest returns the
\* rest; b"Hello, world!" under [Limited(7), Err(Interrupted)] is read as
\* "Hello, ", an Interrupted error, "world!".
C10_ReadPreservesData ==
    wrapper = "PartialRead" =>
        /\ Got(Len(log)) = SubSeq(HelloWorld, 1, srcPos)
        /\ \A i \in DOMAIN log :
              /\ log[i].ret.ok => log[i].ret.v = Len(log[i].bytes)
              /\ ~log[i].ret.ok => (log[i].bytes = <<>> /\ log[i].pos2 = log[i].pos)
              /\ (log[i].item = NoneItem /\ ~flaky
                    /\ log[i].m >= Len(HelloWorld) - log[i].pos)
                    => /\ log[i].ret = SOk(Len(HelloWorld) - log[i].pos)
                       /\ log[i].bytes
                            = SubSeq(HelloWorld, log[i].pos + 1, Len(HelloWorld))
                       /\ log[i].pos2 = Len(HelloWorld)
        /\ (prod = <<Limited(7), Err("Interrupted")>> /\ ~flaky) =>
              /\ (Len(log) >= 1 /\ log[1].m = 256) =>
                    (log[1].ret = SOk(7) /\ log[1].bytes = SubSeq(HelloWorld, 1, 7))
              /\ Len(log) >= 2 =>
                    (log[2].ret = SErr("Interrupted", "read") /\ log[2].bytes = <<>>)
              /\ (Len(log) >= 3 /\ log[1].m = 256 /\ log[3].m = 249) =>
                    (log[3].ret = SOk(6) /\ log[3].bytes = SubSeq(HelloWorld, 8, 13))

\* C10 witness: the three reads of the example, "Hello, world!" delivered.
C10_Witness ==
    /\ wrapper = "PartialRead"
    /\ ~flaky
    /\ prod = <<Limited(7), Err("Interrupted")>>
    /\ Len(log) = 3
    /\ log[1].m = 256
    /\ log[2].m = 249
    /\ log[3].m = 249
    /\ log[3].ret = SOk(6)
    /\ Got(3) = HelloWorld

\* =====================================================================
\* Properties of replace (specification SpecReplace)
\* =====================================================================

\* The queue is that of the producer given last; its flag is set exactly
\* when that producer has returned None; what a poll pulls are that
\* producer's items, in order from where the last poll stopped; on None the
\* callback is called and its result returned.
ReplaceInv ==
    /\ repl.n > 0 => prod = repl.new
    /\ cursor <= QueueLen(prod) + 1
    /\ fused <=> (cursor = QueueLen(prod) + 1)
    /\ (pc = "loop" /\ pollPulls = 0) => startCursor = cursor
    /\ (repl.n > 0 /\ pc = "idle" /\ pollPulls = 0) => (cursor = 0 /\ ~fused)
    /\ pollPulls > 0 =>
          IF cursor > startCursor
          THEN /\ cursor = startCursor + pollPulls
               /\ lastOp = ProducerNext(prod, cursor - 1)
               /\ SkippedInterrupted
          ELSE fused /\ pollPulls = 1 /\ lastOp = NoneItem
    /\ (Returned /\ lastOp = NoneItem) => (pollCbs = 1 /\ res = cbRet)

\* C11: replace(new) leaves a fresh queue over new (position 0, flag clear),
\* whatever was left of the old one and also when the old one was exhausted;
\* the polls after it apply the items of new in order and pass through once
\* new has ended; replace calls neither the callback nor the waker.
C11_ReplaceResets ==
    [][/\ ReplaceInv
       /\ ReplaceInv'
       /\ (repl'.n # repl.n) =>
             /\ prod' = repl'.new
             /\ cursor' = 0
             /\ ~fused'
             /\ wakes' = wakes
             /\ pollCbs' = 0
             /\ pollWakes' = 0
             /\ UNCHANGED syncVars]_vars

\* C11 witness: replace() on an exhausted queue, then a poll that applied the
\* first item of the new producer, Limited(1).
C11_Witness ==
    /\ repl.n = 1
    /\ repl.wasFused
    /\ Returned
    /\ startCursor = 0
    /\ pollPulls = 1
    /\ lastOp = Limited(1)
    /\ prod[1] = Limited(1)
    /\ cbArg = SomeLen(1)

\* A second witness of C11's case: replace() dropped two directives that were
\* left, and the polls after it reached the end of the new producer.
C11_WitnessLeft ==
    /\ repl.n = 1
    /\ repl.left = 2
    /\ Len(prod) = 1
    /\ fused
    /\ Returned
    /\ lastOp = NoneItem


\* ---------------------------------------------------------------- C12
\* A directive the policy pol may generate for target length size.
Generable(op, pol, size) ==
    \/ op.t = "Err" /\ op.kind \in PolicyErrors(pol)
    \/ op.t = "Limited" /\ 1 <= op.n /\ op.n < size

\* C12: for every size >= 0 and every policy, generation completes and yields
\* exactly size directives, each Fail(kind) with a kind of the policy or
\* Limited(k) with 1 <= k < size; none is Limited(0) or Unlimited.
C12_GenerationCompletes ==
    /\ gen.st \in {"run", "done"}
    /\ \A i \in 1..Len(gen.items) :
          /\ Generable(gen.items[i], gen.policy, gen.size)
          /\ gen.items[i] # Limited(0)
          /\ gen.items[i] # Unlimited
    /\ gen.st = "done" => Len(gen.items) = gen.size

\* What does hold of the generator: every run that completes satisfies the
\* claim, and a run panics exactly when size = 1 and the policy answered None.
C12_CompletedRunsConform ==
    /\ gen.st = "panic" => gen.size = 1 /\ gen.items = <<>>
    /\ gen.st # "panic" => C12_GenerationCompletes


\* ---------------------------------------------------------------- C13
\* v holds a Limited(0).
HasLimitedZero(v) == \E i \in 1..Len(v) : v[i] = Limited(0)

\* C13: shrinking never introduces Limited(0): no candidate of a Limited(n),
\* n > 0, is Limited(0), and no sequence reached by any number of shrink steps
\* from a seed without Limited(0) holds one.
C13_NoLimitedZero ==
    /\ \A i \in 1..Len(shr.cur) :
          (shr.cur[i].t = "Limited" /\ shr.cur[i].n > 0)
              => Limited(0) \notin OpShrink(shr.cur[i])
    /\ ~HasLimitedZero(shr.seed) =>
          /\ ~HasLimitedZero(shr.cur)
          /\ \A c \in VecShrink(shr.cur) : ~HasLimitedZero(c)

\* Two shrink steps from a seed of positive Limited values, the second one a
\* replacement of Limited(3) by Limited(2).
C13_Witness ==
    /\ shr.st = "shrunk"
    /\ shr.seed = <<Limited(3), Err("WouldBlock"), Limited(1)>>
    /\ shr.prev = <<Limited(3), Err("WouldBlock")>>
    /\ shr.cur = <<Limited(2), Err("WouldBlock")>>

\* ---------------------------------------------------------------- C14
\* b may stand where a stood: the same directive, or a smaller positive
\* Limited for a Limited.
ShrunkFrom(a, b) ==
    \/ b = a
    \/ a.t = "Limited" /\ b.t = "Limited" /\ 0 < b.n /\ b.n < a.n

\* w is derived from v in the same relative order by removing elements or
\* replacing Limited values by smaller positive ones.
RECURSIVE Derived(_, _)
Derived(v, w) ==
    IF w = <<>> THEN TRUE
    ELSE IF v = <<>> THEN FALSE
    ELSE \/ ShrunkFrom(Head(v), Head(w)) /\ Derived(Tail(v), Tail(w))
         \/ Derived(Tail(v), w)

\* One step changes either the length or one Limited value.
OneChange(v, w) ==
    \/ Len(w) < Len(v) /\ \E f \in [1..Len(w) -> 1..Len(v)] :
          /\ \A i, j \in 1..Len(w) : i < j => f[i] < f[j]
          /\ \A i \in 1..Len(w) : w[i] = v[f[i]]
    \/ Len(w) = Len(v) /\ \E i \in 1..Len(v) :
          /\ v[i].t = "Limited" /\ w[i].t = "Limited"
          /\ 0 < w[i].n /\ w[i].n < v[i].n
          /\ \A j \in 1..Len(v) : j # i => w[j] = v[j]

\* C14: a shrink candidate is the original with elements removed or with
\* Limited(n) replaced by Limited(k), 0 < k < n, in the same relative order;
\* errors keep their kind, Unlimited stays, and nothing is added.
C14_OnlyLengthAndLimits ==
    /\ \A c \in VecShrink(shr.cur) : OneChange(shr.cur, c) /\ Derived(shr.cur, c)
    /\ shr.st = "shrunk" => OneChange(shr.prev, shr.cur)
    /\ Derived(shr.seed, shr.cur)

\* A candidate that dropped the middle directive of three and kept the error
\* and the Unlimited around it.
C14_Witness ==
    /\ shr.st = "shrunk"
    /\ shr.prev = <<Err("WouldBlock"), Limited(2), Unlimited>>
    /\ shr.cur = <<Err("WouldBlock"), Unlimited>>
    /\ shr.seed = shr.prev


\* ---------------------------------------------------------------- C15
\* C15: with the directives [Err(Interrupted), Unlimited], the HELLO write
\* returns an Interrupted error with nothing in the sink, the WORLD write
\* returns Ok(len(WORLD)), flush returns Ok, and the sink ends as HELLO
\* followed by WORLD.
C15_BuggyWriteScenario ==
    prod = <<Err("Interrupted"), Unlimited>> =>
        /\ bw.st = "new" => sink = <<>>
        /\ bw.st \in {"hello", "world", "done"} =>
              /\ ~bw.hello_res.ok
              /\ bw.hello_res.kind = "Interrupted"
        /\ bw.st = "hello" => sink = <<>>
        /\ bw.st \in {"world", "done"} => bw.world_res = SOk(Len(WORLD_STR))
        /\ bw.st = "done" =>
              /\ bw.flush_res = FlushOk
              /\ sink = HELLO_STR \o WORLD_STR

\* The test's run at its end.
C15_Witness ==
    /\ prod = <<Err("Interrupted"), Unlimited>>
    /\ bw.st = "done"
    /\ ~bw.hello_res.ok
    /\ bw.world_res.ok
    /\ Len(sink) = Len(HELLO_STR) + Len(WORLD_STR)

\* ---------------------------------------------------------------- C16
\* What quickcheck_buggy_write2 expects in the sink.
Expected ==
    (IF bw.hello_res.ok THEN HELLO_STR ELSE <<>>)
        \o (IF bw.world_res.ok THEN WORLD_STR ELSE <<>>)

\* A sequence PartialWithErrors<GenInterrupted> can hold.
GenInterruptedSeq(p) ==
    \A i \in 1..Len(p) :
        p[i] = Err("Interrupted") \/ (p[i].t = "Limited" /\ p[i].n >= 1)

\* C16: the randomized test catches the bug: whenever flush returned Ok, the
\* sink holds all of HELLO, followed by WORLD or nothing, whatever the writes
\* reported, so it differs from what the test expects exactly when one of the
\* two writes reported an error, and a sequence of GenInterrupted makes a
\* write report one.
C16_SinkDiffersWhenWriteFailed ==
    (bw.st = "done" /\ bw.flush_res.ok) =>
        /\ sink \in {HELLO_STR, HELLO_STR \o WORLD_STR}
        /\ (sink # Expected) <=> (~bw.hello_res.ok \/ ~bw.world_res.ok)

\* A generated sequence on which the test's assertion fails: the HELLO write
\* was cut to one byte and then interrupted, flush returned Ok, and the sink
\* differs from the expected contents.
C16_Witness ==
    /\ GenInterruptedSeq(prod)
    /\ prod = <<Limited(1), Err("Interrupted")>>
    /\ bw.st = "done"
    /\ bw.flush_res.ok
    /\ ~bw.hello_res.ok
    /\ sink # Expected


\* ---------------------------------------------------------------- C17
\* The flush calls made so far.
Flushes == {i \in DOMAIN log : log[i].op = "flush"}

\* C17: a flush call that pulls Fail(kind) returns an error of that kind
\* without calling the inner flush; one that pulls Limited(n), n = 0 included,
\* or Unlimited, or finds the queue exhausted, calls the inner flush and
\* returns its result unmodified; no byte count is involved.
C17_FlushNoByteCount ==
    \A i \in Flushes :
        /\ log[i].item.t = "Err" =>
              /\ ~log[i].called
              /\ log[i].innerRet = NoInner
              /\ ~log[i].ret.ok
              /\ log[i].ret.kind = log[i].item.kind
        /\ log[i].item.t \in {"Limited", "Unlimited", "None"} =>
              /\ log[i].called
              /\ log[i].innerRet = InnerFlush(flaky)
              /\ log[i].ret = log[i].innerRet
        /\ log[i].len = 0
        /\ log[i].bytes = <<>>
        /\ log[i].sink2 = log[i].sink

\* Three flushes on the queue [Limited(0), Err(WouldBlock)]: the first and the
\* third (queue exhausted) reach the inner flush, the second does not.
C17_Witness ==
    /\ wrapper = "PartialWrite"
    /\ ~flaky
    /\ prod = <<Limited(0), Err("WouldBlock")>>
    /\ Len(log) = 3
    /\ \A i \in 1..3 : log[i].op = "flush"
    /\ log[1].called /\ log[1].ret = FlushOk
    /\ ~log[2].called /\ log[2].ret = SErr("WouldBlock", "flush")
    /\ log[3].item = NoneItem /\ log[3].called /\ log[3].ret = FlushOk


\* ---------------------------------------------------------------- C18
\* C18: directives are consumed strictly in producer order, none skipped and
\* none applied twice: a poll starts at the cursor the last one left; each
\* pull takes the one item at the cursor and moves the cursor past it; the
\* poll goes on exactly while the item is Err(Interrupted); so a poll that
\* started at i and skipped j Err(Interrupted) is decided by the item at
\* i + j and leaves the cursor at i + j + 1, or ends on the queue's end.
C18_ConsumedInOrder ==
    [][/\ cursor <= cursor' /\ cursor' <= cursor + 1
       /\ (pc = "idle" /\ pc' = "loop") =>
             /\ startCursor' = cursor
             /\ cursor' = cursor
             /\ pollPulls' = 0
       /\ pc = "loop" =>
             /\ cursor = startCursor + pollPulls
             /\ pollPulls' = pollPulls + 1
             /\ startCursor' = startCursor
             /\ IF fused
                THEN lastOp' = NoneItem /\ cursor' = cursor
                ELSE lastOp' = ProducerNext(prod, cursor) /\ cursor' = cursor + 1
             /\ (pc' = "loop") <=> (lastOp' = Err("Interrupted"))
             /\ \A k \in 0..(pollPulls - 1) :
                   ProducerNext(prod, startCursor + k) = Err("Interrupted")
             /\ (pc' = "idle" /\ lastOp' # NoneItem) =>
                   /\ cursor' = startCursor + pollPulls + 1
                   /\ prod[startCursor + pollPulls + 1] = lastOp'
             /\ (pc' = "idle" /\ lastOp' = NoneItem) =>
                   /\ fused'
                   /\ \A k \in (startCursor + pollPulls + 1)..cursor' :
                         ProducerNext(prod, k - 1) = NoneItem]_vars

\* A poll that started at position 1 skipped the Err(Interrupted) there, was
\* decided by the Err(WouldBlock) at position 2 and left the cursor at 3.
C18_Witness ==
    /\ prod = <<Limited(1), Err("Interrupted"), Err("WouldBlock")>>
    /\ startCursor = 1
    /\ Returned
    /\ pollPulls = 2
    /\ lastOp = Err("WouldBlock")
    /\ cursor = 3
    /\ res = Pending


\* ---------------------------------------------------------------- C19
\* The producer yields nothing but Err(Interrupted).
AllInterrupted(p) == \A i \in 1..Len(p) : p[i] = Err("Interrupted")

\* The directives a finite producer had left when the current poll started.
LeftAtStart ==
    IF startCursor >= QueueLen(prod) THEN 0 ELSE QueueLen(prod) - startCursor

\* C19: over a finite producer with r directives left a poll pulls at most
\* r + 1 times and returns; over an infinite producer of Err(Interrupted)
\* only, a poll never returns and never invokes the callback or the waker.
C19_BoundedByQueueOnly ==
    /\ [](~cyclic => pollPulls <= LeftAtStart + 1)
    /\ (~cyclic /\ pc = "loop") ~> (pc = "idle")
    /\ []((cyclic /\ AllInterrupted(prod) /\ pc = "loop") =>
             [](pc = "loop" /\ pollCbs = 0 /\ pollWakes = 0 /\ wakes = 0
                   /\ res = NoResult))

\* A poll over an infinite producer of Err(Interrupted) that has pulled more
\* items than the period holds and is still in its loop.
C19_Witness ==
    /\ cyclic
    /\ prod = <<Err("Interrupted")>>
    /\ pc = "loop"
    /\ pollPulls = MaxPulls
    /\ lastOp = Err("Interrupted")
    /\ pollCbs = 0
    /\ wakes = 0

\* A poll over a finite producer that used all r + 1 pulls: two
\* Err(Interrupted) left, then the end of the queue.
C19_WitnessFinite ==
    /\ ~cyclic
    /\ prod = <<Err("Interrupted"), Err("Interrupted")>>
    /\ startCursor = 0
    /\ Returned
    /\ pollPulls = 3
    /\ lastOp = NoneItem
    /\ pollCbs = 1


\* ---------------------------------------------------------------- C20
\* C20: poll_impl_no_limit on a sequence and poll_impl on the sequence with
\* every Limited(n) replaced by Unlimited go through the same polls: they
\* return at the same pull, with the same outcome (Pending, the error with
\* the directive's kind and the diagnostic string, or the callback's result),
\* after the same number of directives and of wakes, and the callback is
\* invoked by both or by neither, by poll_impl without a bound.
C20_NoLimitIsPollImplUnbounded ==
    /\ twin.pc = pc
    /\ twin.cursor = cursor
    /\ twin.fused = fused
    /\ twin.pulls = pollPulls
    /\ twin.pollWakes = pollWakes
    /\ twin.wakes = wakes
    /\ twin.cbs = pollCbs
    /\ twin.res = res
    /\ twin.cbArg = (IF cbArg = NoArg THEN NoBound ELSE cbArg)
    /\ twin.cbArg \in {NotCalled, NoBound}

\* Over [Limited(0), Err(WouldBlock)]: the second poll of both wrappers
\* returned Pending with one wake, after the first had called the callback.
C20_Witness ==
    /\ prod = <<Limited(0), Err("WouldBlock")>>
    /\ Returned
    /\ startCursor = 1
    /\ res = Pending
    /\ twin.res = Pending
    /\ twin.wakes = 1
    /\ twin.cursor = 2


\* ---------------------------------------------------------------- C21
\* C21: no wake-up is lost and an injected suspension cannot stall a task:
\* when the executor polls the task again after every wake, then over a
\* sequence with w Err(WouldBlock) the task reaches, within w + 1 polls, a poll
\* that calls the callback or returns a terminal error; and a poll that
\* returns Pending because of a directive has called the waker before.
C21_NoLostWake ==
    /\ <>(task.st = "done")
    /\ [](task.polls <= WouldBlocksIn(prod, Len(prod)) + 1)
    /\ [](task.st = "done" =>
             \/ pollCbs = 1
             \/ res.p = "Ready" /\ ~res.ok /\ pollCbs = 0)
    /\ []((pc = "idle" /\ res = Pending /\ pollCbs = 0 /\ pollPulls > 0) =>
             /\ pollWakes >= 1
             /\ lastOp = Err("WouldBlock")
             /\ task.st \in {"parked", "runnable"}
             /\ task.st = "parked" => task.woken)

\* Over two Err(WouldBlock) with an Err(Interrupted) between them the task was
\* parked and woken twice, and its third poll called the callback.
C21_Witness ==
    /\ prod = <<Err("WouldBlock"), Err("Interrupted"), Err("WouldBlock")>>
    /\ task.st = "done"
    /\ task.polls = 3
    /\ wakes = 2
    /\ pollCbs = 1
    /\ lastOp = NoneItem


\* ---------------------------------------------------------------- C22
\* Sum of the Limited values of v.
RECURSIVE LimitedSum(_)
LimitedSum(v) ==
    IF v = <<>> THEN 0
    ELSE (IF Head(v).t = "Limited" THEN Head(v).n ELSE 0) + LimitedSum(Tail(v))

\* w is strictly smaller than v: fewer directives, or the same directives
\* with at least one Limited value strictly smaller and none larger.
StrictlySmaller(w, v) ==
    \/ Len(w) < Len(v)
    \/ /\ Len(w) = Len(v)
       /\ \A i \in 1..Len(v) :
             \/ w[i] = v[i]
             \/ v[i].t = "Limited" /\ w[i].t = "Limited" /\ w[i].n < v[i].n
       /\ \E i \in 1..Len(v) : w[i] # v[i]

\* v holds only errors, Unlimited and Limited(1).
NothingToLower(v) ==
    \A i \in 1..Len(v) : v[i].t \in {"Err", "Unlimited"} \/ v[i] = Limited(1)

\* w is v with some elements removed.
RECURSIVE Subsequence(_, _)
Subsequence(w, v) ==
    IF w = <<>> THEN TRUE
    ELSE IF v = <<>> THEN FALSE
    ELSE \/ Head(w) = Head(v) /\ Subsequence(Tail(w), Tail(v))
         \/ Subsequence(w, Tail(v))

\* C22: shrinking converges: every candidate is strictly smaller than the
\* sequence it comes from, every step lowers the pair (length, sum of the
\* Limited values), every chain of shrink steps ends (at the empty sequence,
\* which has no candidate), and a sequence of errors, Unlimited and
\* Limited(1) only has no candidate but those that remove elements.
C22_ShrinkConverges ==
    /\ [](\A c \in VecShrink(shr.cur) : StrictlySmaller(c, shr.cur))
    /\ [][\/ Len(shr'.cur) < Len(shr.cur)
          \/ /\ Len(shr'.cur) = Len(shr.cur)
             /\ LimitedSum(shr'.cur) < LimitedSum(shr.cur)]_vars
    /\ <>[](VecShrink(shr.cur) = {} /\ shr.cur = <<>>)
    /\ [](NothingToLower(shr.cur) =>
             \A c \in VecShrink(shr.cur) :
                 Len(c) < Len(shr.cur) /\ Subsequence(c, shr.cur))

\* The end of a chain of three steps from [Limited(3), Err(Interrupted)]:
\* the value was lowered to 2, the error removed, and the last step came to
\* the empty sequence.
C22_Witness ==
    /\ shr.st = "shrunk"
    /\ shr.seed = <<Limited(3), Err("Interrupted")>>
    /\ shr.prev = <<Limited(2)>>
    /\ shr.cur = <<>>
    /\ VecShrink(shr.cur) = {}

=============================================================================
